---- MODULE Spec2Model ----
(***************************************************************************)
(* Model of the value reconciler (useMotionValues / addMotionValues,       *)
(* src/src/motion/utils/use-motion-values.ts) and of the context           *)
(* propagator (useMotionContext, src/src/motion/context/MotionContext.ts). *)
(***************************************************************************)
EXTENDS Integers, Sequences, FiniteSets, TLC

(***************************************************************************)
(* Part 1: the value reconciler.                                           *)
(*                                                                         *)
(* A prop value is a record [k, n]: k = "undef" for a key that the bag     *)
(* does not have, k = "mv" for a MotionValue whose object identity is n,   *)
(* k = "raw" for the plain number n.                                       *)
(***************************************************************************)
Undefined == [k |-> "undef", n |-> 0]
MV(id) == [k |-> "mv", n |-> id]
Raw(v) == [k |-> "raw", n |-> v]

\* Bounds of the model.
MaxCreated == 2

\* MotionValues the caller owns and may pass as props.
SuppliedIds == {1, 2}
MaxId == Cardinality(SuppliedIds) + MaxCreated

\* Property names of the props bag and of the style bag, in the order of the
\* for-in loops.
KeyOrder == <<"rotate", "opacity", "dragOriginX">>
Keys == {KeyOrder[i] : i \in 1..Len(KeyOrder)}

TransformProps == {"x", "y", "z", "rotate", "rotateX", "rotateY", "rotateZ",
                   "scale", "scaleX", "scaleY", "skew", "skewX", "skewY"}
TransformOriginProps == {"originX", "originY", "originZ"}

isTransformProp(key) == key \in TransformProps
isTransformOriginProp(key) == key \in TransformOriginProps

isMotionValue(v) == v.k = "mv"

reservedNamesNone == {}
reservedNames == {"dragOriginX", "dragOriginY", "_dragValueX", "_dragValueY"}

\* The values a caller can give each property, at top level and in style.
TopChoices(key) ==
    CASE key = "rotate" -> {Undefined, MV(1), Raw(45), Raw(90)}
      [] key = "opacity" -> {Undefined, MV(2)}
      [] OTHER -> {Undefined, MV(1)}
StyleChoices(key) ==
    CASE key = "rotate" -> {Undefined, MV(2), Raw(45)}
      [] key = "opacity" -> {Undefined, Raw(5)}
      [] OTHER -> {Undefined, MV(1)}

PropValues == {Undefined, MV(1), MV(2), Raw(45), Raw(90), Raw(5)}
EmptyBag == [key \in Keys |-> Undefined]
TopBags == {b \in [Keys -> PropValues] : \A key \in Keys : b[key] \in TopChoices(key)}
StyleBags == {b \in [Keys -> PropValues] : \A key \in Keys : b[key] \in StyleChoices(key)}
\* props.style is either absent or a bag.  Only "rotate" is given in both
\* bags at once.
OneBag(t, s) == \A key \in Keys \ {"rotate"} : t[key] = Undefined \/ s[key] = Undefined
PropsSet == {[top |-> t, hasStyle |-> TRUE, style |-> s] :
                <<t, s>> \in {ts \in TopBags \X StyleBags : OneBag(ts[1], ts[2])}}
            \cup {[top |-> t, hasStyle |-> FALSE, style |-> EmptyBag] : t \in TopBags}

NoCalls == [removed |-> {}, sets |-> {}]

VARIABLES
    values,       \* visualElement's registry: key -> MotionValue id, 0 for none
    staticStyle,  \* visualElement.staticStyle: key -> value
    prev,         \* the snapshot kept by useConstant(empty)
    mv,           \* the live MotionValue objects: id -> current value
    nextId,       \* identity of the next MotionValue that motionValue() creates
    calls,        \* the calls the last pass made on the registry and on MotionValues
    lastProps     \* the props of the last pass

mvVars == <<values, staticStyle, prev, mv, nextId, calls, lastProps>>

\* The state of one component's useMotionContext hooks (Part 2).
VARIABLES
    memo,            \* useMemo: [has, deps, value], value the context object
    ctxCount,        \* number of context objects the memo factory has created
    hasMounted,      \* hasMounted.current
    effectPending,   \* the mount effect of useEffect(..., []) is scheduled
    isInitialRender, \* the ref of useInitialOrEveryRender
    layoutDeltas,    \* layoutDeltas.current, <<"unset">> before the first evaluation
    last,            \* the last evaluation: its arguments and what it returned
    modes            \* the rendering modes of the evaluations so far

ctxVars == <<memo, ctxCount, hasMounted, effectPending, isInitialRender,
             layoutDeltas, last, modes>>

\* One resolution of the initial state (lines 67-78 of useMotionContext).
VARIABLES
    resolveIn,       \* [presenceInitial, initial, animate]
    resolveOut       \* initialState, "unresolved" before the resolution

resVars == <<resolveIn, resolveOut>>
vars == <<mvVars, ctxVars, resVars>>

\* VisualElement and MotionValue operations on the record
\* s = [values, staticStyle, prev, mv, nextId, calls].
hasValue(s, key) == s.values[key] # 0
getValue(s, key) == s.values[key]
addValue(s, key, id) ==
    [s EXCEPT !.values[key] = id]
removeValue(s, key) ==
    [s EXCEPT !.values[key] = 0,
              !.calls.removed = @ \cup {key}]
\* motionValue(init): a new object with a new identity.
NewId(s) == s.nextId
motionValue(s, init) ==
    [s EXCEPT !.mv = @ @@ (NewId(s) :> init),
              !.nextId = @ + 1]
mvSet(s, id, v) ==
    [s EXCEPT !.mv[id] = v,
              !.calls.sets = @ \cup {<<id, v>>}]

\* Variant: an existing MotionValue is not updated with the incoming value.
AddKeyNoUpdate(s, source, isStyle, key) ==
    LET value == source[key] IN
    IF value = Undefined THEN s
    ELSE IF isMotionValue(value) THEN
        IF key \notin reservedNames
        THEN [addValue(s, key, value.n) EXCEPT !.prev[key] = value]
        ELSE s
    ELSE IF isTransformProp(key) \/ isTransformOriginProp(key) THEN
        LET t == IF ~hasValue(s, key)
                 THEN addValue(motionValue(s, value.n), key, NewId(s))
                 ELSE s
        IN [t EXCEPT !.prev[key] = value]
    ELSE IF isStyle THEN [s EXCEPT !.staticStyle[key] = value]
    ELSE s

\* One iteration of the loop of addMotionValues.
AddKey(s, source, isStyle, key) ==
    LET value == source[key] IN
    IF value = Undefined THEN s
    ELSE IF isMotionValue(value) THEN
        IF key \notin reservedNames
        THEN [addValue(s, key, value.n) EXCEPT !.prev[key] = value]
        ELSE s
    ELSE IF isTransformProp(key) \/ isTransformOriginProp(key) THEN
        LET t == IF ~hasValue(s, key)
                 THEN addValue(motionValue(s, value.n), key, NewId(s))
                 ELSE IF value # s.prev[key]
                      THEN mvSet(s, getValue(s, key), value.n)
                      ELSE s
        IN [t EXCEPT !.prev[key] = value]
    ELSE IF isStyle THEN [s EXCEPT !.staticStyle[key] = value]
    ELSE s

RECURSIVE AddKeys(_, _, _, _)
AddKeys(s, source, isStyle, i) ==
    IF i > Len(KeyOrder) THEN s
    ELSE AddKeys(AddKey(s, source, isStyle, KeyOrder[i]), source, isStyle, i + 1)

\* Variant: the static-style bag is not replaced by an empty one.
addMotionValuesKeepStyle(s, source, isStyle) ==
    AddKeys(s, source, isStyle, 1)

addMotionValues(s, source, isStyle) ==
    AddKeys(IF isStyle THEN [s EXCEPT !.staticStyle = EmptyBag] ELSE s,
            source, isStyle, 1)

\* Variant: the registry entry is removed but the snapshot key is kept.
RemoveKeyKeepSnapshot(s, props, key) ==
    LET propIsValue == isMotionValue(props.top[key])
        styleIsValue == props.hasStyle /\ isMotionValue(props.style[key])
    IN IF s.prev[key] # Undefined /\ ~propIsValue /\ ~styleIsValue
       THEN removeValue(s, key)
       ELSE s

\* Variant: the snapshot key is deleted but the registry entry is kept.
RemoveKeyKeepRegistry(s, props, key) ==
    LET propIsValue == isMotionValue(props.top[key])
        styleIsValue == props.hasStyle /\ isMotionValue(props.style[key])
    IN IF s.prev[key] # Undefined /\ ~propIsValue /\ ~styleIsValue
       THEN [s EXCEPT !.prev[key] = Undefined]
       ELSE s

\* Variant: a key is removed only when both bags lack it altogether.
RemoveKeyOnlyAbsent(s, props, key) ==
    IF s.prev[key] # Undefined /\ props.top[key] = Undefined
       /\ props.style[key] = Undefined
    THEN [removeValue(s, key) EXCEPT !.prev[key] = Undefined]
    ELSE s

\* The removal loop of useMotionValues, one iteration.
RemoveKey(s, props, key) ==
    LET propIsValue == isMotionValue(props.top[key])
        styleIsValue == props.hasStyle /\ isMotionValue(props.style[key])
    IN IF s.prev[key] # Undefined /\ ~propIsValue /\ ~styleIsValue
       THEN [removeValue(s, key) EXCEPT !.prev[key] = Undefined]
       ELSE s

RECURSIVE RemoveKeys(_, _, _)
RemoveKeys(s, props, i) ==
    IF i > Len(KeyOrder) THEN s
    ELSE RemoveKeys(RemoveKey(s, props, KeyOrder[i]), props, i + 1)

useMotionValues(s, props) ==
    LET r == RemoveKeys(s, props, 1)
        a == addMotionValues(r, props.top, FALSE)
    IN IF props.hasStyle THEN addMotionValues(a, props.style, TRUE) ELSE a

\* A MotionValue that the reconciler created and that the registry no longer
\* holds is unreachable for the reconciler: only the live objects are kept.
Live(s) ==
    [id \in SuppliedIds \cup {s.values[key] : key \in {k \in Keys : s.values[k] # 0}}
        |-> s.mv[id]]

MVInit ==
    /\ values = [key \in Keys |-> 0]
    /\ staticStyle = EmptyBag
    /\ prev = EmptyBag
    /\ mv = [id \in SuppliedIds |-> 0]
    /\ nextId = Cardinality(SuppliedIds) + 1
    /\ calls = NoCalls
    /\ lastProps = [top |-> EmptyBag, hasStyle |-> FALSE, style |-> EmptyBag]

Current ==
    [values |-> values, staticStyle |-> staticStyle, prev |-> prev,
     mv |-> mv, nextId |-> nextId, calls |-> NoCalls]

\* One evaluation of the component: a synchronisation pass with new props.
Synchronize ==
    \E props \in PropsSet :
        \E t \in {useMotionValues(Current, props)} :
           /\ t.nextId <= MaxId + 1
           /\ values' = t.values
           /\ staticStyle' = t.staticStyle
           /\ prev' = t.prev
           /\ mv' = Live(t)
           /\ nextId' = t.nextId
           /\ calls' = t.calls
           /\ lastProps' = props
           /\ UNCHANGED <<ctxVars, resVars>>

(***************************************************************************)
(* Properties of the value reconciler.                                     *)
(***************************************************************************)
isTransformKey(key) == isTransformProp(key) \/ isTransformOriginProp(key)

\* The raw value that props supply under key, when one bag supplies a raw
\* value and the other bag supplies nothing under that name.
SuppliesRaw(props, key) ==
    \/ props.top[key].k = "raw" /\ props.style[key] = Undefined
    \/ props.style[key].k = "raw" /\ props.top[key] = Undefined
RawOf(props, key) ==
    IF props.top[key].k = "raw" THEN props.top[key].n ELSE props.style[key].n

\* Neither bag supplies a binding or a raw transform value under key.
NotSupplied(props, key) ==
    /\ ~isMotionValue(props.top[key])
    /\ ~isMotionValue(props.style[key])
    /\ ~(isTransformKey(key) /\ props.top[key].k = "raw")
    /\ ~(isTransformKey(key) /\ props.style[key].k = "raw")

\* C1: when a transform property is a raw value in two consecutive passes and
\* the raw value differs, the binding registered under that name after the
\* second pass is the one registered after the first pass, its set was called
\* with the new raw value, and it was not removed.
C1_TransformIdentityPreserved ==
    [][\A key \in Keys :
          (/\ isTransformKey(key)
           /\ SuppliesRaw(lastProps, key)
           /\ SuppliesRaw(lastProps', key)
           /\ RawOf(lastProps, key) # RawOf(lastProps', key))
          => /\ values[key] # 0
             /\ values'[key] = values[key]
             /\ <<values[key], RawOf(lastProps', key)>> \in calls'.sets
             /\ key \notin calls'.removed]_mvVars

\* C2: a second pass with props identical to those of the pass before it
\* calls removeValue for no name and leaves every name mapped to the same
\* binding object.
C2_SecondPassIdempotent ==
    [][lastProps' = lastProps
          => calls'.removed = {} /\ values' = values]_mvVars

\* C3: after each pass every key of the snapshot is a name registered in the
\* registry.
C3_NoOrphanedSnapshotKeys ==
    \A key \in Keys : prev[key] # Undefined => values[key] # 0

\* A pass that removed a name has left a snapshot with a registered key.
C3_Witness ==
    /\ calls.removed # {}
    /\ \E key \in Keys : prev[key] # Undefined /\ values[key] # 0

\* C4: a name under which the current pass supplies neither a binding nor a
\* raw transform value, in neither bag, is absent from the registry and from
\* the snapshot after the pass.
C4_DroppedBindingsRemoved ==
    \A key \in Keys :
        NotSupplied(lastProps, key) => values[key] = 0 /\ prev[key] = Undefined

\* The last pass removed a name that an earlier pass had registered and that
\* the props no longer supply.
C4_Witness ==
    \E key \in Keys :
        /\ key \in calls.removed
        /\ NotSupplied(lastProps, key)
        /\ values[key] = 0
        /\ prev[key] = Undefined

\* The names the claim calls reserved.
C5_Names == {"dragOriginX", "dragOriginY", "_dragValueX", "_dragValueY"}

\* C5: a reserved name never has a registry entry or a snapshot key.
C5_ReservedNeverRegistered ==
    \A key \in C5_Names \cap Keys :
        values[key] = 0 /\ prev[key] = Undefined

\* The last pass was given a binding under a reserved name in the style bag.
C5_Witness ==
    \E key \in C5_Names \cap Keys :
        /\ lastProps.hasStyle
        /\ isMotionValue(lastProps.style[key])
        /\ values[key] = 0

\* The entries of the style bag of props whose value is no binding and whose
\* name is no transform or transform-origin property.
PlainStyle(props) ==
    [key \in Keys |->
        IF props.hasStyle /\ props.style[key].k = "raw" /\ ~isTransformKey(key)
        THEN props.style[key] ELSE Undefined]

\* C12 as claimed: after every pass staticStyle holds exactly the plain
\* entries of the style bag of that pass, and nothing when there are none.
C12_StaticStyleRebuilt ==
    staticStyle = PlainStyle(lastProps)

\* C12 as amended: a pass that is given a style bag leaves exactly the plain
\* entries of that bag in staticStyle; a pass without a style bag leaves
\* staticStyle as it was.
C12_StaticStyleRebuiltWithStyle ==
    [][IF lastProps'.hasStyle
       THEN staticStyle' = PlainStyle(lastProps')
       ELSE staticStyle' = staticStyle]_vars

\* A pass without a style bag has left the entry of an earlier pass.
C12_Witness ==
    /\ ~lastProps.hasStyle
    /\ staticStyle["opacity"] = Raw(5)

\* C16: after every pass, a transform property that the props supply as a raw
\* value, with no binding under that name in either bag, has a registered
\* binding whose current value is the supplied raw value (that of the style
\* bag, which is processed last, when both bags supply one).
C16_RawTransformBound ==
    \A key \in Keys :
        (/\ isTransformKey(key)
         /\ lastProps.top[key].k = "raw" \/ lastProps.style[key].k = "raw"
         /\ ~isMotionValue(lastProps.top[key])
         /\ ~isMotionValue(lastProps.style[key]))
        => /\ values[key] # 0
           /\ mv[values[key]] =
                 IF lastProps.style[key].k = "raw" THEN lastProps.style[key].n
                 ELSE lastProps.top[key].n

\* Both bags supplied a raw rotate; the binding created for the top-level
\* value holds the value of the style bag.
C16_Witness ==
    /\ lastProps.top["rotate"] = Raw(90)
    /\ lastProps.style["rotate"] = Raw(45)
    /\ values["rotate"] \notin SuppliedIds \cup {0}
    /\ mv[values["rotate"]] = 45

\* C19: after each pass the names in the registry are exactly the keys of the
\* snapshot.
C19_RegistryKeysAreSnapshotKeys ==
    {key \in Keys : values[key] # 0} = {key \in Keys : prev[key] # Undefined}

\* The last pass removed a name and registered a binding it created for a
\* raw transform value; the snapshot holds that raw value.
C19_Witness ==
    /\ calls.removed # {}
    /\ values["rotate"] \notin SuppliedIds \cup {0}
    /\ prev["rotate"].k = "raw"

\* C20: set is called on no binding that the caller supplied, and the value
\* of a supplied binding is the one the caller gave it.
C20_SuppliedBindingsNotOverwritten ==
    /\ \A c \in calls.sets : c[1] \notin SuppliedIds
    /\ \A id \in SuppliedIds : mv[id] = 0

(***************************************************************************)
(* Part 2: the context propagator, useMotionContext.                       *)
(*                                                                         *)
(* Prop values are strings: "undefined", "false", "true", a variant label  *)
(* (a string of Labels), "target" for one target object and "handle" for   *)
(* an AnimationControls instance.  A context object is a record whose id   *)
(* field is its object identity.                                           *)
(***************************************************************************)
\* Bound: the number of context objects one component creates.
MaxContexts == 2

Labels == {"a", "p"}
isVariantLabel(v) == v \in Labels
isAnimationControls(v) == v = "handle"
Truthy(v) == v # "undefined" /\ v # "false"

\* The default value of MotionContext.
DefaultContext ==
    [id |-> 0, controls |-> "undefined", initial |-> "undefined",
     animate |-> "undefined", isReducedMotion |-> "undefined",
     presenceId |-> 0, layoutDepth |-> -1, layoutDeltas |-> <<>>,
     hasMounted |-> "undefined", isPresenceRoot |-> FALSE, static |-> FALSE]

NoPresence == [id |-> 0, initial |-> "undefined"]

\* Variant: every initial other than false is used as the initial state.
initialStateOfNonFalse(presenceInitial, initialProp, animate) ==
    LET initial == IF presenceInitial # "undefined"
                   THEN presenceInitial ELSE initialProp
    IN IF initial = "false" /\ ~isAnimationControls(animate) THEN animate
       ELSE IF initial # "false" THEN initial
       ELSE "undefined"

\* initialState: initial is overridden by the presence scope's initial when
\* that is defined; the booleans are "true" and "false".
initialStateOf(presenceInitial, initialProp, animate) ==
    LET initial == IF presenceInitial # "undefined"
                   THEN presenceInitial ELSE initialProp
    IN IF initial = "false" /\ ~isAnimationControls(animate) THEN animate
       ELSE IF initial \notin {"true", "false"} THEN initial
       ELSE "undefined"

\* The locals that useMotionContext computes before it builds the context.
\* in = [parent, isStatic, initial, animate, variants, whileTap, whileHover,
\*       layoutId, presence].
Locals(in) ==
    LET presenceId == in.presence.id
        isPresenceRoot == in.parent.presenceId # presenceId
        initialState == initialStateOf(in.presence.initial, in.initial, in.animate)
        shouldPropagateControls ==
            \/ in.variants
            \/ isVariantLabel(in.animate)
            \/ isVariantLabel(in.whileTap)
            \/ isVariantLabel(in.whileHover)
            \/ isAnimationControls(in.animate)
        targetInitial == IF isVariantLabel(initialState)
                         THEN initialState ELSE in.parent.initial
        targetAnimate == IF isVariantLabel(in.animate)
                         THEN in.animate ELSE in.parent.animate
        initialDependency == IF in.isStatic THEN targetInitial ELSE "null"
        animateDependency ==
            IF shouldPropagateControls /\ isVariantLabel(targetAnimate)
            THEN targetAnimate ELSE "null"
    IN [presenceId |-> presenceId,
        isPresenceRoot |-> isPresenceRoot,
        initialState |-> initialState,
        shouldPropagateControls |-> shouldPropagateControls,
        targetInitial |-> targetInitial,
        targetAnimate |-> targetAnimate,
        initialDependency |-> initialDependency,
        animateDependency |-> animateDependency]

\* Variant: the parent's reduced-motion flag is no dependency.
DepsNoReducedMotion(in) ==
    LET l == Locals(in)
    IN <<l.initialDependency, l.animateDependency, "undefined",
         in.animate, in.layoutId, in.presence.id>>

\* Variant: initial is a dependency in interactive mode too.
DepsInitialAlways(in) ==
    LET l == Locals(in)
    IN <<l.targetInitial, l.animateDependency, in.parent.isReducedMotion,
         in.animate, in.layoutId, in.presence.id>>

\* The dependency list of useMemo.
Deps(in) ==
    LET l == Locals(in)
    IN <<l.initialDependency, l.animateDependency, in.parent.isReducedMotion,
         in.animate, in.layoutId, in.presence.id>>

\* The factory of useMemo: the context object, with identity id.  The static
\* field is not set by the factory (FALSE stands for the missing field); it is
\* written after useMemo.  mounted is the hasMounted ref object.
Factory(in, controls, deltas, mounted, id) ==
    LET l == Locals(in)
    IN [id |-> id,
        controls |-> IF l.shouldPropagateControls THEN controls
                     ELSE in.parent.controls,
        initial |-> l.targetInitial,
        animate |-> l.targetAnimate,
        isReducedMotion |-> in.parent.isReducedMotion,
        presenceId |-> l.presenceId,
        layoutDepth |-> IF Truthy(in.animate) \/ in.layoutId # "undefined"
                        THEN in.parent.layoutDepth + 1
                        ELSE in.parent.layoutDepth,
        layoutDeltas |-> deltas,
        hasMounted |-> mounted,
        isPresenceRoot |-> l.isPresenceRoot,
        static |-> FALSE]

\* Variant: the factory runs on every evaluation.
useMemoAlways(m, deps) == FALSE
\* useMemo reuses the stored value when every dependency is unchanged.
useMemoReuses(m, deps) == m.has /\ m.deps = deps

\* Variant: the ref is overwritten with init in every evaluation.
useRefAlwaysInit(current, init) == init
\* useRef(init): init is used by the first evaluation only.
useRef(current, init) == IF current = <<"unset">> THEN init ELSE current

\* Variant: the arguments of useInitialOrEveryRender with the mode inverted.
InitialOnlyInverted(isStatic) == isStatic
\* The isInitialOnly argument that useMotionContext passes.
InitialOnly(isStatic) == ~isStatic

\* useInitialOrEveryRender(callback, isInitialOnly): does the callback run.
useInitialOrEveryRender(isInitialRenderRef, isInitialOnly) ==
    ~isInitialOnly \/ (isInitialOnly /\ isInitialRenderRef)

\* Variant: the static field is left as the factory made it.
RefreshStaticOmitted(context, isStatic) == context
\* context.static = isStatic
RefreshStatic(context, isStatic) ==
    [context EXCEPT !.static = isStatic]

\* One evaluation of useMotionContext on the hooks
\* h = [memo, ctxCount, isInitialRender, layoutDeltas].
useMotionContext(h, in) ==
    LET l == Locals(in)
        deltas == useRef(h.layoutDeltas, in.parent.layoutDeltas \o <<"ownDelta">>)
        deps == Deps(in)
        reused == useMemoReuses(h.memo, deps)
        made == IF reused THEN h.memo.value
                ELSE Factory(in, "ownControls", deltas, "ownMounted", h.ctxCount + 1)
        context == RefreshStatic(made, in.isStatic)
        ran == useInitialOrEveryRender(h.isInitialRender, InitialOnly(in.isStatic))
        initialToApply == IF Truthy(l.initialState) THEN l.initialState
                          ELSE in.parent.initial
    IN [memo |-> [has |-> TRUE, deps |-> deps, value |-> context],
        ctxCount |-> IF reused THEN h.ctxCount ELSE h.ctxCount + 1,
        isInitialRender |-> FALSE,
        layoutDeltas |-> deltas,
        mounting |-> ~h.memo.has,
        reused |-> reused,
        ran |-> ran,
        applied |-> IF ran /\ Truthy(initialToApply) THEN initialToApply
                    ELSE "undefined",
        context |-> context]

\* The contexts that the parent motion component hands down over time.  They
\* are what useMotionContext derives in the parent: without props, with a
\* variant label as animate and initial, and without props below another
\* motion component, which sits below a default context whose reduced-motion
\* flag is set.
PlainInput ==
    [parent |-> DefaultContext, isStatic |-> FALSE, initial |-> "undefined",
     animate |-> "undefined", variants |-> FALSE, whileTap |-> "undefined",
     whileHover |-> "undefined", layoutId |-> "undefined",
     presence |-> NoPresence]
VariantInput == [PlainInput EXCEPT !.initial = "p", !.animate = "p", !.variants = TRUE]
GrandparentContext ==
    Factory([PlainInput EXCEPT !.parent.isReducedMotion = "true"],
            "grandparentControls", <<"grandparentDelta">>, "grandparentMounted", -4)
ReducedInput == [PlainInput EXCEPT !.parent = GrandparentContext]
ParentContexts ==
    {Factory(PlainInput, "parentControls", <<"parentDelta">>, "parentMounted", -1),
     Factory(VariantInput, "parentControls", <<"parentDelta">>, "parentMounted", -2),
     Factory(ReducedInput, "parentControls", <<"grandparentDelta", "parentDelta">>,
             "parentMounted", -3)}

SomePresence == [id |-> 1, initial |-> "false"]
\* The same presence scope without an initial of its own.
PlainPresence == [id |-> 1, initial |-> "undefined"]

\* The props besides initial and animate, <<variants, whileTap, whileHover,
\* layoutId, presence>>: at most one of them is given.
Extras ==
    {<<FALSE, "undefined", "undefined", "undefined", NoPresence>>,
     <<TRUE, "undefined", "undefined", "undefined", NoPresence>>,
     <<FALSE, "a", "undefined", "undefined", NoPresence>>,
     <<FALSE, "undefined", "a", "undefined", NoPresence>>,
     <<FALSE, "undefined", "undefined", "L", NoPresence>>,
     <<FALSE, "undefined", "undefined", "undefined", SomePresence>>,
     <<FALSE, "undefined", "undefined", "undefined", PlainPresence>>}

\* The presence scope's initial replaces the initial prop, which is therefore
\* left out when a presence scope is given.
Inputs ==
    {in \in {[parent |-> pc, isStatic |-> st, initial |-> i, animate |-> a,
              variants |-> e[1], whileTap |-> e[2], whileHover |-> e[3],
              layoutId |-> e[4], presence |-> e[5]] :
                pc \in ParentContexts, st \in BOOLEAN,
                i \in {"undefined", "false", "a"},
                a \in {"undefined", "a", "target", "handle"}, e \in Extras} :
        in.presence = NoPresence \/ in.initial = "undefined"}

NoEvaluation ==
    [in |-> PlainInput, context |-> DefaultContext, mounting |-> FALSE,
     reused |-> FALSE, ran |-> FALSE, applied |-> "undefined"]

\* Variant: useRef(true).
hasMountedInitiallyTrue == TRUE
\* const hasMounted = useRef(false)
hasMountedInitially == FALSE

CtxInit ==
    /\ memo = [has |-> FALSE, deps |-> Deps(PlainInput), value |-> DefaultContext]
    /\ ctxCount = 0
    /\ hasMounted = hasMountedInitially
    /\ effectPending = FALSE
    /\ isInitialRender = TRUE
    /\ layoutDeltas = <<"unset">>
    /\ last = NoEvaluation
    /\ modes = {}

Hooks ==
    [memo |-> memo, ctxCount |-> ctxCount, isInitialRender |-> isInitialRender,
     layoutDeltas |-> layoutDeltas]

\* The host evaluates the component with some parent context and props.
Evaluate ==
    /\ ~effectPending
    /\ \E in \in Inputs :
        \E r \in {useMotionContext(Hooks, in)} :
            /\ r.ctxCount <= MaxContexts
            /\ memo' = r.memo
            /\ ctxCount' = r.ctxCount
            /\ isInitialRender' = r.isInitialRender
            /\ layoutDeltas' = r.layoutDeltas
            /\ effectPending' = r.mounting
            /\ last' = [in |-> in, context |-> r.context, mounting |-> r.mounting,
                        reused |-> r.reused, ran |-> r.ran, applied |-> r.applied]
            /\ modes' = modes \cup {in.isStatic}
            /\ UNCHANGED <<hasMounted, mvVars, resVars>>

\* The effect of useEffect(..., []) runs after the first commit.
CommitMount ==
    /\ effectPending
    /\ hasMounted' = TRUE
    /\ effectPending' = FALSE
    /\ UNCHANGED <<memo, ctxCount, isInitialRender, layoutDeltas, last, modes,
                   mvVars, resVars>>

CtxNext == Evaluate \/ CommitMount

(***************************************************************************)
(* Specifications.                                                         *)
(***************************************************************************)
ResolveInputs ==
    [presenceInitial : {"undefined", "false", "true", "a"},
     initial : {"undefined", "false", "true", "a", "target"},
     animate : {"undefined", "a", "target", "handle"}]

NoResolution ==
    /\ resolveIn = [presenceInitial |-> "undefined", initial |-> "undefined",
                    animate |-> "undefined"]
    /\ resolveOut = "unresolved"

Init == MVInit /\ CtxInit /\ NoResolution

MVNext == Synchronize

\* The initial state is resolved for some presence initial, initial prop and
\* animate prop.
ResolveInit ==
    /\ MVInit
    /\ CtxInit
    /\ resolveIn \in ResolveInputs
    /\ resolveOut = "unresolved"

Resolve ==
    /\ resolveOut = "unresolved"
    /\ resolveOut' = initialStateOf(resolveIn.presenceInitial, resolveIn.initial,
                                    resolveIn.animate)
    /\ UNCHANGED <<resolveIn, mvVars, ctxVars>>

SpecInitial == ResolveInit /\ [][Resolve]_vars

SpecValues == Init /\ [][MVNext]_vars

SpecContext == Init /\ [][CtxNext]_vars

(***************************************************************************)
(* Properties of the context propagator.  modes # {} says that the         *)
(* component has been evaluated; last is then its latest evaluation.       *)
(***************************************************************************)
\* The component is a propagation root in the evaluation with input in.
IsPropagationRoot(in) ==
    \/ in.variants
    \/ in.animate \in Labels
    \/ in.whileTap \in Labels
    \/ in.whileHover \in Labels
    \/ in.animate = "handle"

\* The component declares an animate target or a layoutId.
DeclaresAnimateOrLayoutId(in) ==
    in.animate # "undefined" \/ in.layoutId # "undefined"

\* C6: after every evaluation the controls field of the returned context is
\* the component's own controls if it is a propagation root in that
\* evaluation, and the parent context's controls otherwise.
C6_PropagationRootControls ==
    modes # {} =>
        last.context.controls =
            IF IsPropagationRoot(last.in) THEN "ownControls"
            ELSE last.in.parent.controls

\* C7: after every evaluation the returned layoutDepth is the depth of the
\* parent context given to that evaluation, plus one exactly when the
\* component declares animate or layoutId.
C7_LayoutDepthMonotone ==
    modes # {} =>
        /\ last.context.layoutDepth >= last.in.parent.layoutDepth
        /\ last.context.layoutDepth =
              IF DeclaresAnimateOrLayoutId(last.in)
              THEN last.in.parent.layoutDepth + 1
              ELSE last.in.parent.layoutDepth

\* C8: when the dependency set of an evaluation equals that of the evaluation
\* before it, the evaluation returns the same context object, with every
\* field except static unchanged.
C8_ContextIdentityStable ==
    [][(modes # {} /\ Deps(last'.in) = Deps(last.in))
          => [last'.context EXCEPT !.static = FALSE]
                = [last.context EXCEPT !.static = FALSE]]_vars

\* An evaluation whose props declare variants returned the object of an
\* earlier evaluation, whose props did not.
C8_Witness ==
    /\ last.reused
    /\ last.in.variants
    /\ last.context.controls # "ownControls"

\* C9: after every evaluation the static field of the returned context is the
\* isStatic argument of that evaluation.
C9_StaticRefreshed ==
    modes # {} => last.context.static = last.in.isStatic

\* A static evaluation returned a reused context object.
C9_Witness ==
    /\ last.reused
    /\ last.in.isStatic
    /\ last.context.static

\* C10: in a component evaluated in interactive mode only, the initial-state
\* effect runs in the first evaluation and in no later one; in a component
\* evaluated in static mode only, it runs in every evaluation.
C10_InitialEffectFrequency ==
    /\ modes = {FALSE} => (last.ran <=> last.mounting)
    /\ modes = {TRUE} => last.ran

\* A later evaluation of an interactive component, after the mount effect,
\* in which the initial-state effect did not run.
C10_Witness ==
    /\ modes = {FALSE}
    /\ hasMounted
    /\ ~last.mounting
    /\ ~last.ran

\* C11: hasMounted is false while the first evaluation is rendered and not
\* yet committed, is set to true by the first commit, is true after it, is
\* never reset to false, and every evaluation exposes the same flag object in
\* the context.
C11_MountedFlag ==
    [][/\ (last'.mounting /\ effectPending' => ~hasMounted')
       /\ (hasMounted => hasMounted')
       /\ (~hasMounted /\ hasMounted' => effectPending /\ last.mounting)
       /\ (modes' # {} /\ ~effectPending' => hasMounted')
       /\ (modes' # {} => last'.context.hasMounted = "ownMounted")]_vars

\* A later evaluation, with new props, finds the flag still set and hands
\* down the same flag object.
C11_Witness ==
    /\ hasMounted
    /\ ~last.mounting
    /\ ~last.reused
    /\ last.context.hasMounted = "ownMounted"

\* C13: after every evaluation the animate field of the returned context is
\* the component's animate prop when that is a variant label, and the animate
\* field of the parent context given to that evaluation otherwise.
C13_AnimatePropagated ==
    modes # {} =>
        last.context.animate =
            IF last.in.animate \in Labels THEN last.in.animate
            ELSE last.in.parent.animate

\* The initial after the presence scope's initial has replaced it.
C14_Initial ==
    IF resolveIn.presenceInitial # "undefined"
    THEN resolveIn.presenceInitial ELSE resolveIn.initial

\* C14: the resolved initial state is animate when initial is false and
\* animate is no animation-controls handle, initial itself when initial is
\* not a boolean, and undefined when initial is true or when initial is false
\* and animate is a handle.
C14_InitialStateResolution ==
    resolveOut # "unresolved" =>
        /\ (C14_Initial = "false" /\ resolveIn.animate # "handle"
                => resolveOut = resolveIn.animate)
        /\ (C14_Initial \notin {"true", "false"} => resolveOut = C14_Initial)
        /\ (C14_Initial = "true" \/
            (C14_Initial = "false" /\ resolveIn.animate = "handle")
                => resolveOut = "undefined")

\* The presence scope disabled initial over a label given as prop, and the
\* animate target became the initial state.
C14_Witness ==
    /\ resolveIn.presenceInitial = "false"
    /\ resolveIn.initial = "a"
    /\ resolveIn.animate = "target"
    /\ resolveOut = "target"

\* The inputs a and b of two evaluations differ, and in nothing but the
\* initial prop and the initial of the presence scope.
OnlyInitialDiffers(a, b) ==
    /\ a # b
    /\ [a EXCEPT !.initial = "undefined", !.presence.initial = "undefined"]
          = [b EXCEPT !.initial = "undefined", !.presence.initial = "undefined"]

\* C15: when two consecutive interactive evaluations differ in the initial
\* prop or the presence initial only, the second returns the context object
\* of the first.
C15_InitialIgnoredWhenInteractive ==
    [][(/\ modes # {}
        /\ ~last.in.isStatic
        /\ ~last'.in.isStatic
        /\ OnlyInitialDiffers(last.in, last'.in))
          => last'.context.id = last.context.id]_vars

\* An interactive component whose initial prop is now the label "a" has
\* returned a context object made before initial was that label.
C15_Witness ==
    /\ modes = {FALSE}
    /\ last.reused
    /\ last.in.initial = "a"
    /\ last.context.initial # "a"

\* C17: after every evaluation the isReducedMotion field of the returned
\* context is that of the parent context given to that evaluation.
C17_ReducedMotionInherited ==
    modes # {} =>
        last.context.isReducedMotion = last.in.parent.isReducedMotion

\* A later evaluation below a parent whose flag is set, on the second context
\* object of the component.
C17_Witness ==
    /\ ~last.mounting
    /\ last.context.id = 2
    /\ last.in.parent.isReducedMotion = "true"
    /\ last.context.isReducedMotion = "true"

\* C18: the layoutDeltas list is made by the first evaluation, from the
\* layoutDeltas of the parent context of that evaluation followed by the
\* component's own accumulator; no later evaluation changes it, and every
\* evaluation hands down that list.
C18_LayoutDeltaChain ==
    [][/\ (layoutDeltas = <<"unset">> /\ layoutDeltas' # <<"unset">>
              => layoutDeltas' = last'.in.parent.layoutDeltas \o <<"ownDelta">>)
       /\ (layoutDeltas # <<"unset">> => layoutDeltas' = layoutDeltas)
       /\ (modes' # {}
              => /\ layoutDeltas' # <<"unset">>
                 /\ layoutDeltas'[Len(layoutDeltas')] = "ownDelta"
                 /\ last'.context.layoutDeltas = layoutDeltas')]_vars

\* A later evaluation below a parent context with another list has kept the
\* list of the first evaluation.
C18_Witness ==
    /\ ~last.mounting
    /\ last.in.parent.layoutDeltas \o <<"ownDelta">> # layoutDeltas
    /\ last.context.layoutDeltas = layoutDeltas
====
